---- MODULE Spec2Model ----
(***************************************************************************)
(* Pixel Arcade (src/app.js): the Router, the persistent store, the frame  *)
(* clock and the three engines BYTE RUNNER, NEON CLICKER and GLITCH REACT. *)
(*                                                                         *)
(* Every handler of the program is one action.  A handler is written as an *)
(* operator on the "world" record w (all the program's state) so that the  *)
(* calls a handler makes compose exactly as they do in the source.         *)
(*                                                                         *)
(* Units (JavaScript numbers are kept exact as scaled integers):           *)
(*   time steps dt, timers           centiseconds (0.01 s)                 *)
(*   frame gaps                      milliseconds                          *)
(*   runner speed                    0.1 px/s                              *)
(*   runner distance, obstacle y     0.001 px                              *)
(*   runner score                    0.00001 points                        *)
(*   runner spawnEvery               1/800000 cs                           *)
(*   clicker bits, total             0.2 bits                              *)
(*   Math.random()                   hundredths (a roll r stands for r/100)*)
(***************************************************************************)
EXTENDS Integers, Sequences, FiniteSets, TLC

VARIABLES
  runner,      \* createByteRunner's closure variables
  clicker,     \* createNeonClicker's closure variables
  react,       \* createGlitchReact's closure variables
  storage,     \* localStorage: key -> stored text
  fault,       \* TRUE when every localStorage access throws
  frames,      \* the browser's pending requestAnimationFrame callbacks
  activeGame,  \* the Router's activeGame ("none" for null)
  host,        \* the engines whose root element is attached to #gameHost
  btnPause,    \* the shared pause button: [disabled, pressed]
  lastEvent,   \* the handler that ran last: [name, eng, arg, key, dt, raised, log, overlap]
  opened,      \* history: the games mounted since the page was loaded
  called,      \* history: the engines called directly while they were not mounted
  since,       \* history: per engine, the last of its mount / restart / callback
  elapsed      \* history: the unpaused time (cs) Neon Clicker's callbacks were handed since its mount

vars == <<runner, clicker, react, storage, fault, frames, activeGame, host, btnPause, lastEvent, opened, called, since, elapsed>>

Engines == {"runner", "clicker", "react"}

\* ---------------------------------------------------------------- bounds
\* Distance (0.001 px) up to which Byte Runner's simulation is advanced.
MaxDistance == 500000
\* Spendable bits (whole bits) below which Neon Clicker clicks and ticks are explored.
MaxBits == 3
\* Streak up to which correct Glitch React inputs are explored.
MaxStreak == 2
\* Time (cs) up to which an engine's timer is advanced (beyond every window).
MaxTimer == 1000
\* The same bounds for the runs that switch between the games.
\* Steady 50 ms ticks (45 s of play) up to which Byte Runner's speed is raised.
MaxTicks == 900
\* The same bounds for the harness of the Game Contract.
ContractTimer == 20
ContractStreak == 1
RouterAdvance == 0
RouterBits == 1
RouterStreak == 1
\* The frame clock's runs: time (cs) and distance (0.001 px) the engines are advanced.
ClockSpan == 40
\* Spendable bits (whole bits) below which the shop's runs click.
ShopBits == 25
ClockDistance == 12000
ClockBits == 1
\* Streak up to which the response window is followed (the floor is reached at 34).
WindowStreak == 45
\* Upgrade level up to which purchases are tried.
MaxLevel == 5
\* Spendable bits (whole bits) below which the bank's runs click and tick.
BankBits == 60

\* ------------------------------------------------------------- utilities
Min(a, b) == IF a < b THEN a ELSE b
Max(a, b) == IF a > b THEN a ELSE b

clamp(v, a, b) == Max(a, Min(b, v))

\* The world: every variable of the program, as one record.
World ==
  [runner |-> runner, clicker |-> clicker, react |-> react, storage |-> storage,
   fault |-> fault, frames |-> frames, activeGame |-> activeGame, host |-> host,
   btnPause |-> btnPause, raised |-> FALSE, log |-> <<>>, overlap |-> FALSE, dt |-> -1]

\* What a handler did, in order: "update" (simulation advanced), "draw"/"render";
\* dt is the time step (cs) a frame callback computed, -1 when it computed none.
Log(w, what) == [w EXCEPT !.log = Append(@, what)]

IsRender(x) == x \in {"draw", "render"}

\* ------------------------------------------------------ persistent store
KEY_RUNNER == "px_best_runner"
KEY_CLICKER == "px_clicker_state"
KEY_REACT == "px_best_react"
Keys == {KEY_RUNNER, KEY_CLICKER, KEY_REACT}

\* localStorage.getItem of a key never set.
NoItem == [kind |-> "null"]
\* A stored text that is not JSON.
Garbage == [kind |-> "garbage"]
\* The empty text.
EmptyText == [kind |-> "empty"]

\* The text JSON.stringify writes for an engine's record v (a best, or the
\* clicker's state), kept as the document it denotes.
JSONStringify(v) == [kind |-> "json", val |-> v]

\* JavaScript values as JSON has them: numbers (integers here), booleans, null,
\* strings (sequences of characters, none of them a quote or a backslash) and
\* objects (their members in insertion order, each [k, v]).
Num(n) == [t |-> "num", n |-> n]
Bool(b) == [t |-> "bool", b |-> b]
Null == [t |-> "null"]
Str(s) == [t |-> "str", s |-> s]
Obj(fs) == [t |-> "obj", fs |-> fs]

DigitChar == <<"0", "1", "2", "3", "4", "5", "6", "7", "8", "9">>
IsDigit(c) == \E d \in 1..10 : DigitChar[d] = c
DigitVal(c) == (CHOOSE d \in 1..10 : DigitChar[d] = c) - 1

RECURSIVE Digits(_)
Digits(n) ==
  IF n < 10 THEN <<DigitChar[n + 1]>> ELSE Digits(n \div 10) \o <<DigitChar[(n % 10) + 1]>>

\* JSON.stringify(v), character by character.
RECURSIVE Stringify(_), Members(_, _)
Stringify(v) ==
  IF v.t = "num" THEN (IF v.n < 0 THEN <<"-">> \o Digits(-v.n) ELSE Digits(v.n))
  ELSE IF v.t = "bool" THEN (IF v.b THEN <<"t", "r", "u", "e">> ELSE <<"f", "a", "l", "s", "e">>)
  ELSE IF v.t = "null" THEN <<"n", "u", "l", "l">>
  ELSE IF v.t = "str" THEN <<"\"">> \o v.s \o <<"\"">>
  ELSE <<"{">> \o Members(v.fs, 1) \o <<"}">>

Members(fs, i) ==
  IF i > Len(fs) THEN <<>>
  ELSE (IF i > 1 THEN <<",">> ELSE <<>>)
       \o <<"\"">> \o fs[i].k \o <<"\"", ":">> \o Stringify(fs[i].v) \o Members(fs, i + 1)

\* The text JSON.stringify(v) hands to localStorage.setItem.
JSONText(v) == [kind |-> "chars", chars |-> Stringify(v)]

\* The parser's results: [ok, val, next], next the position after the value.
ParseFail == [ok |-> FALSE, val |-> Null, next |-> 0]
Parsed(v, next) == [ok |-> TRUE, val |-> v, next |-> next]

\* cs holds the characters of word from position i on.
Literal(cs, i, word) ==
  /\ i + Len(word) - 1 <= Len(cs)
  /\ \A j \in 1..Len(word) : cs[i + j - 1] = word[j]

\* The digits from position i on, read into acc.
RECURSIVE ParseDigits(_, _, _)
ParseDigits(cs, i, acc) ==
  IF i <= Len(cs) /\ IsDigit(cs[i]) THEN ParseDigits(cs, i + 1, acc * 10 + DigitVal(cs[i]))
  ELSE [n |-> acc, next |-> i]

ParseNumber(cs, i) ==
  LET neg == cs[i] = "-"
      from == IF neg THEN i + 1 ELSE i
      d == ParseDigits(cs, from, 0)
  IN IF d.next = from THEN ParseFail
     ELSE Parsed(Num(IF neg THEN -d.n ELSE d.n), d.next)

\* The characters up to the closing quote, the opening one being before i.
RECURSIVE ParseString(_, _, _)
ParseString(cs, i, acc) ==
  IF i > Len(cs) THEN ParseFail
  ELSE IF cs[i] = "\"" THEN Parsed(Str(acc), i + 1)
  ELSE ParseString(cs, i + 1, Append(acc, cs[i]))

RECURSIVE ParseValue(_, _), ParseMembers(_, _, _)
ParseValue(cs, i) ==
  IF i > Len(cs) THEN ParseFail
  ELSE IF cs[i] = "{" THEN
         (IF i + 1 <= Len(cs) /\ cs[i + 1] = "}" THEN Parsed(Obj(<<>>), i + 2)
          ELSE ParseMembers(cs, i + 1, <<>>))
  ELSE IF cs[i] = "\"" THEN ParseString(cs, i + 1, <<>>)
  ELSE IF cs[i] = "-" \/ IsDigit(cs[i]) THEN ParseNumber(cs, i)
  ELSE IF Literal(cs, i, <<"t", "r", "u", "e">>) THEN Parsed(Bool(TRUE), i + 4)
  ELSE IF Literal(cs, i, <<"f", "a", "l", "s", "e">>) THEN Parsed(Bool(FALSE), i + 5)
  ELSE IF Literal(cs, i, <<"n", "u", "l", "l">>) THEN Parsed(Null, i + 4)
  ELSE ParseFail

\* The members of an object from position i on: "key":value, then , or }.
ParseMembers(cs, i, acc) ==
  IF i > Len(cs) \/ cs[i] # "\"" THEN ParseFail
  ELSE LET key == ParseString(cs, i + 1, <<>>) IN
       IF ~key.ok \/ key.next > Len(cs) \/ cs[key.next] # ":" THEN ParseFail
       ELSE LET v == ParseValue(cs, key.next + 1) IN
            IF ~v.ok \/ v.next > Len(cs) THEN ParseFail
            ELSE LET fs == Append(acc, [k |-> key.val.s, v |-> v.val]) IN
                 IF cs[v.next] = "}" THEN Parsed(Obj(fs), v.next + 1)
                 ELSE IF cs[v.next] = "," THEN ParseMembers(cs, v.next + 1, fs)
                 ELSE ParseFail

\* JSON.parse: [ok, val]; ok = FALSE stands for the SyntaxError it throws.  A
\* text is JSON when one value takes all of its characters.
JSONParse(raw) ==
  IF raw.kind = "json" THEN [ok |-> TRUE, val |-> raw.val]
  ELSE IF raw.kind = "chars"
       THEN LET r == ParseValue(raw.chars, 1) IN
            IF r.ok /\ r.next = Len(raw.chars) + 1 THEN [ok |-> TRUE, val |-> r.val]
            ELSE [ok |-> FALSE, val |-> 0]
       ELSE [ok |-> FALSE, val |-> 0]

\* `raw ? ... : fallback`: null and the empty string are falsy.
Truthy(raw) == raw.kind \notin {"null", "empty"} /\ (raw.kind = "chars" => raw.chars # <<>>)

\* A JavaScript value is falsy: 0, false, null, "".
Falsy(v) ==
  \/ v.t = "num" /\ v.n = 0
  \/ v.t = "bool" /\ ~v.b
  \/ v.t = "null"
  \/ v.t = "str" /\ v.s = <<>>

\* A get written as `JSON.parse(raw) || fallback`.
StoreGetOrFallback(w, key, fallback) ==
  IF w.fault THEN fallback
  ELSE LET raw == w.storage[key] IN
       IF ~Truthy(raw) THEN fallback
       ELSE LET p == JSONParse(raw) IN
            IF ~p.ok THEN fallback
            ELSE IF raw.kind = "chars" /\ Falsy(p.val) THEN fallback
            ELSE p.val

\* A get that reads the stored text although the access throws.
StoreGetIgnoresFault(w, key, fallback) ==
  LET raw == w.storage[key] IN
  IF ~Truthy(raw) THEN fallback
  ELSE LET p == JSONParse(raw) IN IF p.ok THEN p.val ELSE fallback

StoreGet(w, key, fallback) ==
  IF w.fault THEN fallback
  ELSE LET raw == w.storage[key] IN
       IF ~Truthy(raw) THEN fallback
       ELSE LET p == JSONParse(raw) IN IF p.ok THEN p.val ELSE fallback

\* try { localStorage.setItem(key, text) } catch {}
StorePut(w, key, text) ==
  IF w.fault THEN w ELSE [w EXCEPT !.storage[key] = text]

\* store.set of an engine's record
StoreSet(w, key, value) == StorePut(w, key, JSONStringify(value))

\* store.set of a JavaScript value, written out as text
StoreSetValue(w, key, v) == StorePut(w, key, JSONText(v))

\* refreshMenuBadges only reads the store and writes badge text.
RefreshMenuBadges(w) == w

\* ----------------------------------------------------------- frame clock
\* The handles that stay in use when engine eng overwrites its raf: those of
\* pending requests and those the other engines hold.
UsedHandles(w, eng) ==
  {f.id : f \in w.frames} \cup {w[e].raf : e \in Engines \ {eng}}

\* requestAnimationFrame returns a handle no request has had; handles are only
\* compared, so the least positive number not in use stands for it.
NewHandle(w, eng) ==
  CHOOSE i \in 1..(Cardinality(UsedHandles(w, eng)) + 1) :
    /\ i \notin UsedHandles(w, eng)
    /\ \A j \in 1..(i - 1) : j \in UsedHandles(w, eng)

\* raf = requestAnimationFrame(loop), for engine eng.
RequestAnimationFrame(w, eng) ==
  LET id == NewHandle(w, eng) IN
  [w EXCEPT !.frames = @ \cup {[eng |-> eng, id |-> id]}, ![eng].raf = id]

CancelAnimationFrame(w, id) == [w EXCEPT !.frames = {f \in @ : f.id # id}]

Pending(w, eng) == {f \in w.frames : f.eng = eng}

\* A time step that is the whole gap, however long.
StepNoClamp(last, gap) == IF last = 0 THEN 0 ELSE gap \div 10

\* dt = Math.min(0.05, (t - last) / 1000) in cs, for a callback gap ms after the
\* previous one; `if (!last) last = t` makes it 0 when last is 0.
Step(last, gap) == IF last = 0 THEN 0 ELSE Min(5, gap \div 10)

\* The timestamp an engine keeps in last/lastT: 0 (none yet) or that of its
\* previous callback, which every later gap is measured from.
Stamp == 1

\* ------------------------------------------------- GAME 1: BYTE RUNNER
W == 360
H == 480
lanes == 3
speedGain == 10

\* laneX(i) = W * (0.2 + i * 0.3), px
laneX(i) == (W * (2 + 3 * i)) \div 10

\* The closure variables as createByteRunner leaves them; ctx stands for root,
\* canvas and ctx (set together by mount, cleared together by unmount) and
\* listening for the keydown and canvas listeners.
RunnerNew(best) ==
  [best |-> best, ctx |-> FALSE, raf |-> 0, running |-> FALSE, paused |-> FALSE,
   alive |-> TRUE, playerLane |-> 1, lastT |-> 0, speed |-> 1100, score |-> 0,
   distance |-> 0, obstacles |-> <<>>, spawnTimer |-> 0, spawnEvery |-> 68000000,
   listening |-> FALSE]

\* Math.floor(score)
FloorScore(score) == score \div 100000

RunnerDraw(w) == IF w.runner.ctx THEN Log(w, "draw") ELSE w

\* A reset that subscribes to the frame clock again.
RunnerResetResubscribes(w) ==
  LET w1 == RunnerDraw([w EXCEPT
    !.runner.running = TRUE, !.runner.paused = FALSE, !.runner.alive = TRUE,
    !.runner.playerLane = 1, !.runner.lastT = 0, !.runner.speed = 1100,
    !.runner.score = 0, !.runner.distance = 0, !.runner.obstacles = <<>>,
    !.runner.spawnTimer = 0, !.runner.spawnEvery = 68000000])
  IN [w1 EXCEPT !.frames = @ \cup {[eng |-> "runner", id |-> 0]}]

RunnerReset(w) ==
  RunnerDraw([w EXCEPT
    !.runner.running = TRUE, !.runner.paused = FALSE, !.runner.alive = TRUE,
    !.runner.playerLane = 1, !.runner.lastT = 0, !.runner.speed = 1100,
    !.runner.score = 0, !.runner.distance = 0, !.runner.obstacles = <<>>,
    !.runner.spawnTimer = 0, !.runner.spawnEvery = 68000000])

\* togglePause: [w, ret]
RunnerTogglePause(w) ==
  IF ~w.runner.running THEN [w |-> w, ret |-> TRUE]
  ELSE [w |-> [w EXCEPT !.runner.paused = ~@], ret |-> ~w.runner.paused]

RunnerStop(w) ==
  LET c == CancelAnimationFrame(w, w.runner.raf) IN
  [c EXCEPT !.runner.running = FALSE, !.runner.paused = FALSE, !.runner.raf = 0]

\* spawnObstacle with Math.random() = rl/100 then rh/100
SpawnObstacle(obs, rl, rh) ==
  LET h == 18 + (rh * 18) \div 100 IN
  Append(obs, [lane |-> (rl * lanes) \div 100, y |-> -(h * 1000), h |-> h])

rectsOverlap(ax, ay, aw, ah, bx, by, bw, bh) ==
  ax < bx + bw /\ ax + aw > bx /\ ay < by + bh /\ ay + ah > by

\* x in px, y in 0.001 px
Hits(playerLane, o) ==
  rectsOverlap(laneX(playerLane) - 14, (H - 70) * 1000, 28, 28000,
               laneX(o.lane) - 18, o.y, 36, o.h * 1000)

\* spawnEvery = clamp(0.85 - distance / 80000, 0.35, 0.85)
SpawnEvery(distance) == clamp(68000000 - distance, 28000000, 68000000)

\* spawnTimer >= spawnEvery, after update(dt) has advanced both
SpawnDue(r, dt) == (r.spawnTimer + dt) * 800000 >= SpawnEvery(r.distance + r.speed * dt)

\* update(dt); rolls are the values Math.random() returns, in call order.
RunnerUpdate(w, dt, rolls) ==
  LET r == w.runner IN
  IF ~r.alive THEN w
  ELSE
    LET distance == r.distance + r.speed * dt
        speed == r.speed + (speedGain * dt) \div 10
        spawnEvery == SpawnEvery(distance)
        score == r.score + 12000 * dt + 5 * speed * dt
        timer == r.spawnTimer + dt
        spawn == SpawnDue(r, dt)
        one == SpawnObstacle(r.obstacles, rolls.lane1, rolls.h1)
        spawned == IF ~spawn THEN r.obstacles
                   ELSE IF rolls.spike < 10 /\ distance > 2000000
                        THEN SpawnObstacle(one, rolls.lane2, rolls.h2)
                        ELSE one
        moved == [i \in 1..Len(spawned) |-> [spawned[i] EXCEPT !.y = @ + speed * dt]]
        InView(o) == o.y < (H + 60) * 1000
        kept == SelectSeq(moved, InView)
        dead == \E i \in 1..Len(kept) : Hits(r.playerLane, kept[i])
        best == Max(r.best, FloorScore(score))
        w1 == Log([w EXCEPT
                !.runner.distance = distance, !.runner.speed = speed,
                !.runner.spawnEvery = spawnEvery, !.runner.score = score,
                !.runner.spawnTimer = IF spawn THEN 0 ELSE timer,
                !.runner.obstacles = kept], "update")
    IN IF dead
       THEN StoreSet([w1 EXCEPT !.runner.alive = FALSE, !.runner.best = best], KEY_RUNNER, best)
       ELSE w1

\* A loop that draws only the ticks it updates.
RunnerLoopFreezes(w, gap, rolls) ==
  IF ~w.runner.running THEN RunnerDraw(w)
  ELSE
    LET w1 == RequestAnimationFrame(w, "runner")
        dt == Step(w1.runner.lastT, gap)
        w2 == [w1 EXCEPT !.runner.lastT = Stamp, !.dt = dt]
    IN IF ~w2.runner.paused /\ w2.runner.alive THEN RunnerDraw(RunnerUpdate(w2, dt, rolls)) ELSE w2

\* A loop that updates while paused.
RunnerLoopIgnoresPause(w, gap, rolls) ==
  IF ~w.runner.running THEN RunnerDraw(w)
  ELSE
    LET w1 == RequestAnimationFrame(w, "runner")
        dt == Step(w1.runner.lastT, gap)
        w2 == [w1 EXCEPT !.runner.lastT = Stamp, !.dt = dt]
        w3 == IF w2.runner.alive THEN RunnerUpdate(w2, dt, rolls) ELSE w2
    IN RunnerDraw(w3)

\* loop(t), for a callback gap ms after the engine's previous one.
RunnerLoop(w, gap, rolls) ==
  IF ~w.runner.running THEN RunnerDraw(w)
  ELSE
    LET w1 == RequestAnimationFrame(w, "runner")
        dt == Step(w1.runner.lastT, gap)
        w2 == [w1 EXCEPT !.runner.lastT = Stamp, !.dt = dt]
        w3 == IF ~w2.runner.paused /\ w2.runner.alive THEN RunnerUpdate(w2, dt, rolls) ELSE w2
    IN RunnerDraw(w3)

\* A lane shift that does not test alive.
RunnerMoveLaneWhenDead(w, dir) ==
  [w EXCEPT !.runner.playerLane = clamp(@ + dir, 0, lanes - 1)]

RunnerMoveLane(w, dir) ==
  IF ~w.runner.alive THEN w
  ELSE [w EXCEPT !.runner.playerLane = clamp(@ + dir, 0, lanes - 1)]

\* e.key.toLowerCase()
Lower(key) == IF key = "A" THEN "a" ELSE IF key = "D" THEN "d" ELSE IF key = "Enter" THEN "enter" ELSE key

\* onKey(e), e = [key, repeat]
RunnerOnKey(w, e) ==
  IF e.repeat THEN w
  ELSE
    LET w1 == IF e.key = "ArrowLeft" \/ Lower(e.key) = "a" THEN RunnerMoveLane(w, -1) ELSE w
        w2 == IF e.key = "ArrowRight" \/ Lower(e.key) = "d" THEN RunnerMoveLane(w1, 1) ELSE w1
        w3 == IF e.key = "Enter" /\ ~w2.runner.alive THEN RunnerReset(w2) ELSE w2
    IN IF e.key = " " THEN RunnerTogglePause(w3).w ELSE w3

RunnerMount(w) ==
  LET w1 == [w EXCEPT !.runner.ctx = TRUE, !.runner.listening = TRUE,
                      !.host = @ \cup {"runner"}]
      w2 == RunnerStop(RunnerReset(w1))
  IN RequestAnimationFrame([w2 EXCEPT !.runner.running = TRUE], "runner")

RunnerUnmount(w) ==
  LET w1 == RunnerStop(w) IN
  [w1 EXCEPT !.runner.listening = FALSE, !.runner.ctx = FALSE]

\* ------------------------------------------------- GAME 2: NEON CLICKER
UpgradeIds == {"core", "drip", "crit"}

\* upgradeDefs: base, and mult as the fraction num/den (1.22, 1.28, 1.35)
upgradeDefs ==
  [core |-> [base |-> 25, num |-> 61, den |-> 50],
   drip |-> [base |-> 60, num |-> 32, den |-> 25],
   crit |-> [base |-> 120, num |-> 27, den |-> 20]]

RECURSIVE Pow(_, _)
Pow(a, n) == IF n = 0 THEN 1 ELSE a * Pow(a, n - 1)

\* Whole numbers of any size, as sequences of limbs of four decimal digits,
\* the least significant first: x * m + carry, x \div d, and the number itself.
Limb == 10000

RECURSIVE MulSmall(_, _, _)
MulSmall(x, m, carry) ==
  IF x = <<>> THEN (IF carry = 0 THEN <<>> ELSE <<carry % Limb>> \o MulSmall(<<>>, m, carry \div Limb))
  ELSE LET t == Head(x) * m + carry IN <<t % Limb>> \o MulSmall(Tail(x), m, t \div Limb)

\* The limbs 1..i of x \div d, rem being what the limbs above i left over.
RECURSIVE DivSmall(_, _, _, _)
DivSmall(x, i, d, rem) ==
  IF i = 0 THEN <<>>
  ELSE LET t == rem * Limb + x[i] IN Append(DivSmall(x, i - 1, d, t % d), t \div d)

RECURSIVE ToInt(_)
ToInt(x) == IF x = <<>> THEN 0 ELSE Head(x) + Limb * ToInt(Tail(x))

\* x * m^n and floor(x / d^n)
RECURSIVE Times(_, _, _)
Times(x, m, n) == IF n = 0 THEN x ELSE Times(MulSmall(x, m, 0), m, n - 1)

RECURSIVE Over(_, _, _)
Over(x, d, n) == IF n = 0 THEN x ELSE Over(DivSmall(x, Len(x), d, 0), d, n - 1)

\* A cost that is rounded down at every level: floor(previous cost * mult).
RECURSIVE CostAtStepwise(_, _)
CostAtStepwise(id, lvl) ==
  LET u == upgradeDefs[id] IN
  IF lvl = 0 THEN u.base ELSE (CostAtStepwise(id, lvl - 1) * u.num) \div u.den

\* Math.floor(u.base * Math.pow(u.mult, lvl)), whole bits: the floor of
\* base * num^lvl / den^lvl, computed exactly.
CostAt(id, lvl) ==
  LET u == upgradeDefs[id] IN ToInt(Over(Times(<<u.base>>, u.num, lvl), u.den, lvl))

calcCost(st, id) == CostAt(id, st.upgrades[id])

\* The fallback of store.get(KEY, {...})
ClickerDefault ==
  [bits |-> 0, total |-> 0, bpc |-> 1, bps |-> 0,
   upgrades |-> [core |-> 0, drip |-> 0, crit |-> 0]]

\* bitsEl stands for the DOM references mount assigns (bitsEl, bpcEl, bpsEl, listEl).
ClickerNew(st) ==
  [state |-> st, root |-> FALSE, tickTimer |-> 0, raf |-> 0, last |-> 0,
   paused |-> FALSE, bitsEl |-> FALSE]

ClickerSave(w) == StoreSet(w, KEY_CLICKER, w.clicker.state)

ClickerTogglePause(w) ==
  [w |-> [w EXCEPT !.clicker.paused = ~@], ret |-> ~w.clicker.paused]

ClickerRender(w) == IF w.clicker.root THEN Log(w, "render") ELSE w

\* addBits(n), n whole bits
ClickerAddBits(w, n) ==
  RefreshMenuBadges(ClickerRender(ClickerSave(
    [w EXCEPT !.clicker.state.bits = @ + 5 * n, !.clicker.state.total = @ + 5 * n])))

\* clickGain() with Math.random() = roll/100: the gain in whole bits
clickGain(st, roll) ==
  LET critChance == clamp(8 + st.upgrades.crit * 2, 8, 40)
      crit == roll < critChance
      mult == IF crit THEN 3 + Min(4, st.upgrades.crit) ELSE 1
  IN st.bpc * mult

\* A loop that empties the passive buffer when it discharges.
ClickerLoopDropsRemainder(w, gap) ==
  LET w1 == RequestAnimationFrame(w, "clicker")
      dt == Step(w1.clicker.last, gap)
      w2 == [w1 EXCEPT !.clicker.last = Stamp, !.dt = dt]
  IN IF w2.clicker.paused THEN w2
     ELSE
       LET tickTimer == w2.clicker.tickTimer + dt
           steps == tickTimer \div 20
           gain == w2.clicker.state.bps * steps
           w3 == Log(w2, "update")
       IN IF tickTimer >= 20
          THEN LET w4 == [w3 EXCEPT !.clicker.tickTimer = 0] IN
               IF gain > 0
               THEN RefreshMenuBadges(ClickerRender(ClickerSave(
                      [w4 EXCEPT !.clicker.state.bits = @ + gain,
                                 !.clicker.state.total = @ + gain])))
               ELSE w4
          ELSE [w3 EXCEPT !.clicker.tickTimer = tickTimer]

\* loop(t)
ClickerLoop(w, gap) ==
  LET w1 == RequestAnimationFrame(w, "clicker")
      dt == Step(w1.clicker.last, gap)
      w2 == [w1 EXCEPT !.clicker.last = Stamp, !.dt = dt]
  IN IF w2.clicker.paused THEN w2
     ELSE
       LET tickTimer == w2.clicker.tickTimer + dt
           steps == tickTimer \div 20
           gain == w2.clicker.state.bps * steps
           w3 == Log(w2, "update")
       IN IF tickTimer >= 20
          THEN LET w4 == [w3 EXCEPT !.clicker.tickTimer = tickTimer - steps * 20] IN
               IF gain > 0
               THEN RefreshMenuBadges(ClickerRender(ClickerSave(
                      [w4 EXCEPT !.clicker.state.bits = @ + gain,
                                 !.clicker.state.total = @ + gain])))
               ELSE w4
          ELSE [w3 EXCEPT !.clicker.tickTimer = tickTimer]

\* A purchase that raises the level without the upgrade's effect.
BuyLevelOnly(st, id) == [st EXCEPT !.upgrades[id] = @ + 1]

\* u.buy()
Buy(st, id) ==
  LET up == [st EXCEPT !.upgrades[id] = @ + 1] IN
  IF id = "core" THEN [up EXCEPT !.bpc = @ + 1]
  ELSE IF id = "drip" THEN [up EXCEPT !.bps = @ + 1]
  ELSE up

\* A purchase that takes the cost off the lifetime total as well.
ClickerBuyChargesTotal(w, id) ==
  LET c == calcCost(w.clicker.state, id) IN
  IF w.clicker.state.bits < 5 * c THEN w
  ELSE RefreshMenuBadges(ClickerRender(ClickerSave(
         [w EXCEPT !.clicker.state = Buy([@ EXCEPT !.bits = @ - 5 * c, !.total = @ - 5 * c], id)])))

\* A purchase that does not test bits against the cost.
ClickerBuyOnCredit(w, id) ==
  LET c == calcCost(w.clicker.state, id) IN
  RefreshMenuBadges(ClickerRender(ClickerSave(
    [w EXCEPT !.clicker.state = Buy([@ EXCEPT !.bits = @ - 5 * c], id)])))

\* The click listener of an upgrade's button
ClickerBuy(w, id) ==
  LET c == calcCost(w.clicker.state, id) IN
  IF w.clicker.state.bits < 5 * c THEN w
  ELSE RefreshMenuBadges(ClickerRender(ClickerSave(
         [w EXCEPT !.clicker.state = Buy([@ EXCEPT !.bits = @ - 5 * c], id)])))

ClickerRestart(w) ==
  RefreshMenuBadges(ClickerRender(ClickerSave([w EXCEPT !.clicker.state = ClickerDefault])))

ClickerMount(w) ==
  LET w1 == [w EXCEPT !.clicker.root = TRUE, !.clicker.bitsEl = TRUE,
                      !.host = @ \cup {"clicker"},
                      !.clicker.paused = FALSE, !.clicker.tickTimer = 0, !.clicker.last = 0]
  IN ClickerRender(RequestAnimationFrame(CancelAnimationFrame(w1, w1.clicker.raf), "clicker"))

\* An unmount that leaves the subscription in place.
ClickerUnmountKeepsFrame(w) == [w EXCEPT !.clicker.root = FALSE]

ClickerUnmount(w) ==
  [CancelAnimationFrame(w, w.clicker.raf) EXCEPT !.clicker.raf = 0, !.clicker.root = FALSE]

\* ------------------------------------------------- GAME 3: GLITCH REACT
keys == <<"h", "j", "k", "l">>

\* keys.indexOf(k), 0-based, -1 when absent
IndexOfKey(k) ==
  IF \E i \in 1..4 : keys[i] = k THEN (CHOOSE i \in 1..4 : keys[i] = k) - 1 ELSE -1

\* msgEl is TRUE once mount has assigned the status element (it is never cleared).
ReactNew(best) ==
  [best |-> best, root |-> FALSE, paused |-> FALSE, live |-> FALSE, streak |-> 0,
   timeLeft |-> 150, timer |-> 0, targetIndex |-> 0, raf |-> 0, last |-> 0,
   msgEl |-> FALSE, listening |-> FALSE]

\* A window without its floor of 0.55 s.
WindowNoFloor(streak) == Min(155, 155 - streak * 3)

\* clamp(1.55 - streak * 0.03, 0.55, 1.55), cs
Window(streak) == clamp(155 - streak * 3, 55, 155)

ReactRender(w) == IF w.react.root THEN Log(w, "render") ELSE w

\* A saveBest that raises best without writing it.
ReactSaveBestUnwritten(w) == [w EXCEPT !.react.best = Max(w.react.best, w.react.streak)]

ReactSaveBest(w) ==
  LET best == Max(w.react.best, w.react.streak) IN
  StoreSet([w EXCEPT !.react.best = best], KEY_REACT, best)

\* A newTarget that leaves the elapsed time running.
ReactNewTargetKeepsTimer(w, roll) ==
  ReactRender([w EXCEPT !.react.targetIndex = (roll * 4) \div 100,
                        !.react.timeLeft = Window(w.react.streak)])

\* newTarget() with Math.random() = roll/100
ReactNewTarget(w, roll) ==
  ReactRender([w EXCEPT !.react.targetIndex = (roll * 4) \div 100, !.react.timer = 0,
                        !.react.timeLeft = Window(w.react.streak)])

ReactEnd(w) ==
  RefreshMenuBadges(ReactRender(ReactSaveBest([w EXCEPT !.react.live = FALSE])))

\* msgEl.textContent = ...: a TypeError while msgEl is undefined
SetMsg(w) == IF w.react.msgEl THEN w ELSE [w EXCEPT !.raised = TRUE]

ReactStart(w, roll) ==
  LET w1 == SetMsg([w EXCEPT !.react.live = TRUE, !.react.streak = 0]) IN
  IF w1.raised THEN w1 ELSE ReactRender(ReactNewTarget(w1, roll))

ReactRestart(w, roll) == ReactStart(w, roll)

ReactTogglePause(w) ==
  [w |-> [w EXCEPT !.react.paused = ~@], ret |-> ~w.react.paused]

\* hit(i)
ReactHit(w, i, roll) ==
  IF ~w.react.live \/ w.react.paused THEN w
  ELSE IF i = w.react.targetIndex
       THEN LET w1 == SetMsg([w EXCEPT !.react.streak = @ + 1]) IN
            IF w1.raised THEN w1 ELSE ReactNewTarget(w1, roll)
       ELSE LET w1 == SetMsg(w) IN IF w1.raised THEN w1 ELSE ReactEnd(w1)

\* onKey(e), e = [key, repeat]
ReactOnKey(w, e, roll) ==
  IF e.repeat THEN w
  ELSE
    LET k == Lower(e.key)
        idx == IndexOfKey(k)
        w1 == IF idx >= 0 THEN ReactHit(w, idx, roll) ELSE w
    IN IF w1.raised THEN w1
       ELSE IF k = "enter" /\ ~w1.react.live THEN ReactStart(w1, roll) ELSE w1

\* A loop that ends the session only once the elapsed time is past the window.
ReactLoopLate(w, gap) ==
  LET w1 == RequestAnimationFrame(w, "react")
      dt == Step(w1.react.last, gap)
      w2 == [w1 EXCEPT !.react.last = Stamp, !.dt = dt]
  IN IF ~w2.react.live \/ w2.react.paused THEN w2
     ELSE
       LET w3 == Log([w2 EXCEPT !.react.timer = @ + dt], "update") IN
       IF w3.react.timer > w3.react.timeLeft
       THEN LET w4 == SetMsg(w3) IN IF w4.raised THEN w4 ELSE ReactEnd(w4)
       ELSE ReactRender(w3)

\* loop(t)
ReactLoop(w, gap) ==
  LET w1 == RequestAnimationFrame(w, "react")
      dt == Step(w1.react.last, gap)
      w2 == [w1 EXCEPT !.react.last = Stamp, !.dt = dt]
  IN IF ~w2.react.live \/ w2.react.paused THEN w2
     ELSE
       LET w3 == Log([w2 EXCEPT !.react.timer = @ + dt], "update") IN
       IF w3.react.timer >= w3.react.timeLeft
       THEN LET w4 == SetMsg(w3) IN IF w4.raised THEN w4 ELSE ReactEnd(w4)
       ELSE ReactRender(w3)

ReactMount(w) ==
  LET w1 == [w EXCEPT !.react.root = TRUE, !.react.msgEl = TRUE, !.react.listening = TRUE,
                      !.host = @ \cup {"react"},
                      !.react.paused = FALSE, !.react.live = FALSE, !.react.last = 0]
  IN ReactRender(RequestAnimationFrame(CancelAnimationFrame(w1, w1.react.raf), "react"))

ReactUnmount(w) ==
  [CancelAnimationFrame([w EXCEPT !.react.listening = FALSE], w.react.raf)
     EXCEPT !.react.raf = 0, !.react.root = FALSE]

\* ------------------------------------------------------ Router (shell)
\* games[id].mount / unmount / restart / togglePause
Mount(w, id, roll) ==
  IF id = "runner" THEN RunnerMount(w)
  ELSE IF id = "clicker" THEN ClickerMount(w)
  ELSE ReactMount(w)

Unmount(w, id) ==
  IF id = "runner" THEN RunnerUnmount(w)
  ELSE IF id = "clicker" THEN ClickerUnmount(w)
  ELSE ReactUnmount(w)

Restart(w, id, roll) ==
  IF id = "runner" THEN RunnerReset(w)
  ELSE IF id = "clicker" THEN ClickerRestart(w)
  ELSE ReactRestart(w, roll)

TogglePause(w, id) ==
  IF id = "runner" THEN RunnerTogglePause(w)
  ELSE IF id = "clicker" THEN ClickerTogglePause(w)
  ELSE ReactTogglePause(w)

\* An engine's listeners can still be reached by input: the keydown (and
\* canvas) listeners it registered, or controls of its root still in the host.
Listening(w, e) ==
  IF e = "runner" THEN w.runner.listening \/ "runner" \in w.host
  ELSE IF e = "clicker" THEN "clicker" \in w.host
  ELSE w.react.listening \/ "react" \in w.host

\* The engines holding a pending frame-clock subscription or live listeners.
Holders(w) == {e \in Engines : Pending(w, e) # {} \/ Listening(w, e)}

\* mountGame(gameId)
MountGame(w, gameId, roll) ==
  LET w1 == IF w.activeGame # "none" THEN Unmount(w, w.activeGame) ELSE w
      w2 == [w1 EXCEPT !.host = {},
                       !.activeGame = IF gameId \in Engines THEN gameId ELSE "none"]
  IN IF w2.activeGame = "none" THEN w2
     ELSE LET w3 == Mount([w2 EXCEPT !.overlap = Holders(w2) # {}], gameId, roll) IN
          RefreshMenuBadges([w3 EXCEPT !.btnPause = [disabled |-> FALSE, pressed |-> FALSE]])

\* backToMenu()
BackToMenu(w) ==
  LET w1 == IF w.activeGame # "none" THEN Unmount(w, w.activeGame) ELSE w IN
  RefreshMenuBadges([w1 EXCEPT !.activeGame = "none", !.host = {}])

\* btnRestart's click listener
OnRestartClick(w, roll) ==
  LET w1 == IF w.activeGame # "none" THEN Restart(w, w.activeGame, roll) ELSE w IN
  IF w1.raised THEN w1 ELSE RefreshMenuBadges(w1)

\* btnPause's click listener
OnPauseClick(w) ==
  IF w.activeGame = "none" THEN w
  ELSE LET t == TogglePause(w, w.activeGame) IN
       [t.w EXCEPT !.btnPause.pressed = t.ret]

\* ---------------------------------------------------------------- inputs
\* Frame gaps (ms) the display delivers; 5000 is a stalled tab.
SteadyGaps == {50, 5000}

\* Math.random() outcomes, in hundredths, per call site.
HeightRolls == {0}
FewTargetRolls == {0, 75}
CritRolls == {5, 50}

NoRolls == [lane1 |-> 0, h1 |-> 0, spike |-> 50, lane2 |-> 0, h2 |-> 0]

\* The rolls a Byte Runner callback can consume: none unless it spawns, and
\* the second obstacle's only when the spike can happen.
RunnerRolls(L, r, dt) ==
  IF ~(r.running /\ ~r.paused /\ r.alive /\ SpawnDue(r, dt)) THEN {NoRolls}
  ELSE IF r.distance + r.speed * dt > 2000000
       THEN {[lane1 |-> a, h1 |-> b, spike |-> 50, lane2 |-> 0, h2 |-> 0] : a \in L.lanes, b \in HeightRolls}
            \cup [lane1 : L.lanes, h1 : HeightRolls, spike : {5}, lane2 : L.lanes, h2 : HeightRolls]
       ELSE {[lane1 |-> a, h1 |-> b, spike |-> 50, lane2 |-> 0, h2 |-> 0] : a \in L.lanes, b \in HeightRolls}

\* The keys pressed: those an engine's onKey tests, and one it does not ("x").
RunnerKeys == {"ArrowLeft", "D", "Enter", " "}
ReactKeys == {"h", "l", "Enter", "x"}

\* The keydown events a player sends while the engines of es are listening;
\* the last ones are auto-repeats of a held key.  "h" and "l" are the keys of
\* pads 0 and 3, the two targets FewTargetRolls selects.
KeyEvents(es) ==
  LET ks == (IF "runner" \in es THEN RunnerKeys ELSE {}) \cup (IF "react" \in es THEN ReactKeys ELSE {})
  IN [key : ks, repeat : {FALSE}] \cup [key : ks \cap {"ArrowLeft", "h"}, repeat : {TRUE}]

\* The keydown events a focused pad receives: Enter, Space, and Enter held.
PadKeyEvents ==
  [key : {"Enter", " "}, repeat : {FALSE}] \cup [key : {"Enter"}, repeat : {TRUE}]

\* ------------------------------------------------------- exploration limits
\* What a specification explores: the bounds of each engine, the frame gaps,
\* the handlers whose runs lastEvent records (the others leave "-"), and
\* whether the clock's history (since, elapsed, a callback's gap) is kept.
RouterLimits ==
  [distance |-> MaxDistance, advance |-> RouterAdvance, bits |-> RouterBits, streak |-> RouterStreak,
   gaps |-> {50}, targets |-> {0}, lanes |-> {50}, pads |-> {0, 3}, solo |-> FALSE, clock |-> FALSE,
   watch |-> {"mountGame", "backToMenu"}]

\* A visit in which one game is played, however often it is opened.
\* Calls of the Game Contract made on an engine that is not mounted.
LateCalls == {"lateUnmount", "latePause", "lateRestart"}

Handlers ==
  {"mountGame", "backToMenu", "restart", "pause", "frame", "keydown", "keyrepeat",
   "touch", "click", "buy", "pad", "padkey", "padrepeat"}

\* A harness that, besides playing one game, calls its engine while it is not
\* mounted and lets the display deliver a callback the engine has cancelled.
ContractLimits ==
  [distance |-> MaxDistance, advance |-> ContractTimer, bits |-> MaxBits, streak |-> ContractStreak,
   gaps |-> {50}, targets |-> {0}, lanes |-> {50}, pads |-> {0, 3}, solo |-> TRUE, clock |-> FALSE,
   watch |-> {"stale"} \cup LateCalls]

SoloLimits ==
  [distance |-> MaxDistance, advance |-> MaxTimer, bits |-> MaxBits, streak |-> MaxStreak,
   gaps |-> SteadyGaps, targets |-> FewTargetRolls, lanes |-> {50}, pads |-> {0, 3}, solo |-> TRUE, clock |-> FALSE,
   watch |-> Handlers]

\* ----------------------------------------------------------------- state
Quiet ==
  [name |-> "-", eng |-> "none", arg |-> -1, key |-> "", dt |-> -1, raised |-> FALSE,
   log |-> <<>>, overlap |-> FALSE]

Event(L, name, eng, arg, key, w) ==
  IF name \in L.watch
  THEN [name |-> name, eng |-> eng, arg |-> arg, key |-> key, dt |-> w.dt, raised |-> w.raised,
        log |-> w.log, overlap |-> w.overlap]
  ELSE Quiet

\* Where each engine stands with the frame clock after handler name ran for
\* engine eng: "none" while it is not mounted, "mount" from its mount to its
\* first callback, then "tick" after a callback and "restart" after a reset /
\* restart that followed one.  Enter on a dead Byte Runner calls reset() as
\* Restart does.
Since(name, eng, key) ==
  [e \in Engines |->
     IF name = "mountGame"
     THEN IF e = eng THEN "mount" ELSE IF e = activeGame THEN "none" ELSE since[e]
     ELSE IF name = "backToMenu" THEN IF e = activeGame THEN "none" ELSE since[e]
     ELSE IF name = "frame" /\ e = eng THEN "tick"
     ELSE IF since[e] = "mount" THEN "mount"
     ELSE IF name = "restart" /\ e = eng THEN "restart"
     ELSE IF name = "keydown" /\ key = "Enter" /\ e = "runner" /\ runner.listening /\ ~runner.alive
          THEN "restart"
     ELSE since[e]]

\* The unpaused time Neon Clicker's callbacks have been handed since its mount,
\* after handler name ran and left w.
Elapsed(w, name, eng) ==
  IF name = "mountGame" /\ eng = "clicker" THEN 0
  ELSE IF name = "frame" /\ eng = "clicker" /\ w.log # <<>> /\ w.log[1] = "update"
       THEN elapsed + w.dt
       ELSE elapsed

\* The state a handler leaves, w, becomes the next state.
Commit(L, w, name, eng, arg, key) ==
  /\ runner' = w.runner
  /\ clicker' = w.clicker
  /\ react' = w.react
  /\ storage' = w.storage
  /\ fault' = w.fault
  /\ frames' = w.frames
  /\ activeGame' = w.activeGame
  /\ host' = w.host
  /\ btnPause' = w.btnPause
  /\ opened' = opened \cup (IF name = "mountGame" THEN {eng} \cap Engines ELSE {})
  /\ called' = called \cup (IF name \in LateCalls THEN {eng} ELSE {})
  /\ since' = IF L.clock THEN Since(name, eng, key) ELSE since
  /\ elapsed' = IF L.clock THEN Elapsed(w, name, eng) ELSE elapsed
  /\ lastEvent' = Event(L, name, eng, arg, key, w)

\* The page as loaded over the stored texts, with localStorage throwing on
\* every access (broken) or working: the three engines are created from the
\* stored records.
Load(texts, broken) ==
  LET w0 == [storage |-> texts, fault |-> broken]
  IN [runner |-> RunnerNew(StoreGet(w0, KEY_RUNNER, 0)),
      clicker |-> ClickerNew(StoreGet(w0, KEY_CLICKER, ClickerDefault)),
      react |-> ReactNew(StoreGet(w0, KEY_REACT, 0)),
      storage |-> texts, fault |-> broken, frames |-> {}, activeGame |-> "none",
      host |-> {}, btnPause |-> [disabled |-> FALSE, pressed |-> FALSE],
      raised |-> FALSE, log |-> <<>>, overlap |-> FALSE, dt |-> -1]

\* The page as loaded, localStorage working.
Loaded(sr, sc, sk) ==
  Load([k \in Keys |-> IF k = KEY_RUNNER THEN sr ELSE IF k = KEY_CLICKER THEN sc ELSE sk], FALSE)

\* The variables start as the world w, with the games of played opened.
Start(w, played) ==
  /\ runner = w.runner
  /\ clicker = w.clicker
  /\ react = w.react
  /\ storage = w.storage
  /\ fault = w.fault
  /\ frames = w.frames
  /\ activeGame = w.activeGame
  /\ host = w.host
  /\ btnPause = w.btnPause
  /\ lastEvent = Quiet
  /\ opened = played
  /\ called = {}
  /\ since = [e \in Engines |-> "none"]
  /\ elapsed = 0

\* A clicker record an earlier visit left: 60 plain clicks.
ClickerSaved ==
  [bits |-> 300, total |-> 300, bpc |-> 1, bps |-> 0,
   upgrades |-> [core |-> 0, drip |-> 0, crit |-> 0]]

Init == Start(Loaded(NoItem, JSONStringify(ClickerSaved), NoItem), {})

\* --------------------------------------------------------------- actions
\* A menu card is clicked.
CardClick(L, id) ==
  /\ L.solo => opened \cup called \subseteq {id}
  /\ Commit(L, MountGame(World, id, 0), "mountGame", id, -1, "")

\* btnHome or btnBack is clicked.
HomeClick(L) == Commit(L, BackToMenu(World), "backToMenu", activeGame, -1, "")

RestartClick(L) ==
  \E roll \in IF activeGame = "react" THEN L.targets ELSE {0} :
    Commit(L, OnRestartClick(World, roll), "restart", activeGame, -1, "")

PauseClick(L) == Commit(L, OnPauseClick(World), "pause", activeGame, -1, "")

\* The exploration's bounds: a callback of engine e is delivered if it
\* advances nothing, or while e's simulation is within L's bounds.
Within(L, e) ==
  IF e = "runner"
  THEN \/ ~(runner.running /\ ~runner.paused /\ runner.alive)
       \/ runner.lastT = 0
       \/ runner.distance <= L.distance /\ runner.spawnTimer < L.advance
  ELSE IF e = "clicker"
  THEN \/ clicker.paused
       \/ clicker.last = 0
       \/ clicker.state.bits <= 5 * L.bits /\ clicker.tickTimer < L.advance /\ elapsed < L.advance
  ELSE ~react.live \/ react.paused \/ react.last = 0 \/ react.timer < L.advance

\* The display delivers Byte Runner's pending callback.
RunnerFrame(L) ==
  \E f \in Pending(World, "runner"), gap \in L.gaps :
    \E rolls \in RunnerRolls(L, runner, Step(runner.lastT, gap)) :
      /\ Within(L, "runner")
      /\ Commit(L, RunnerLoop([World EXCEPT !.frames = @ \ {f}], gap, rolls), "frame", "runner", IF L.clock THEN gap ELSE -1, "")

ClickerFrame(L) ==
  \E f \in Pending(World, "clicker"), gap \in L.gaps :
    /\ Within(L, "clicker")
    /\ Commit(L, ClickerLoop([World EXCEPT !.frames = @ \ {f}], gap), "frame", "clicker", IF L.clock THEN gap ELSE -1, "")

ReactFrame(L) ==
  \E f \in Pending(World, "react"), gap \in L.gaps :
    /\ Within(L, "react")
    /\ Commit(L, ReactLoop([World EXCEPT !.frames = @ \ {f}], gap), "frame", "react", IF L.clock THEN gap ELSE -1, "")

\* A keydown reaches window: every engine listening handles it.
KeyDown(L) ==
  \E e \in KeyEvents({g \in {"runner", "react"} : World[g].listening}) :
    \E roll \in IF react.listening /\ ~e.repeat /\ (e.key = "Enter" \/ IndexOfKey(Lower(e.key)) >= 0)
                THEN L.targets ELSE {0} :
      /\ runner.listening \/ react.listening
      /\ react.streak < L.streak
      /\ LET w1 == IF runner.listening THEN RunnerOnKey(World, e) ELSE World
             w2 == IF react.listening THEN ReactOnKey(w1, e, roll) ELSE w1
         IN Commit(L, w2, IF e.repeat THEN "keyrepeat" ELSE "keydown",
                   IF react.listening THEN "react" ELSE "runner", IndexOfKey(Lower(e.key)), e.key)

\* Byte Runner's LEFT / RIGHT buttons.
TouchClick(L) ==
  \E dir \in {-1, 1} :
    /\ "runner" \in host
    /\ Commit(L, RunnerMoveLane(World, dir), "touch", "runner", dir, "")

\* Neon Clicker's GENERATE BITS button.
GenerateClick(L) ==
  \E roll \in CritRolls :
    /\ "clicker" \in host
    /\ clicker.state.bits < 5 * L.bits
    /\ Commit(L, ClickerAddBits(World, clickGain(clicker.state, roll)), "click", "clicker", -1, "")

\* An upgrade's BUY button; render leaves it disabled while bits < cost.
BuyClick(L) ==
  \E id \in UpgradeIds :
    /\ "clicker" \in host
    /\ clicker.state.bits >= 5 * calcCost(clicker.state, id)
    /\ Commit(L, ClickerBuy(World, id), "buy", "clicker", -1, id)

\* A Glitch React pad is clicked.
PadClick(L) ==
  \E i \in L.pads :
    \E roll \in IF i = react.targetIndex THEN L.targets ELSE {0} :
      /\ "react" \in host
      /\ react.streak < L.streak
      /\ Commit(L, ReactHit(World, i, roll), "pad", "react", i, "")

\* Enter or Space is pressed on a focused pad: the pad's keydown listener runs,
\* then the event bubbles to window's.
PadKeyDown(L) ==
  \E i \in L.pads, e \in PadKeyEvents :
    \E roll \in IF i = react.targetIndex \/ e.key = "Enter" THEN L.targets ELSE {0} :
      /\ "react" \in host
      /\ react.streak < L.streak
      /\ LET w1 == ReactHit(World, i, roll)
             w2 == IF react.listening /\ ~w1.raised THEN ReactOnKey(w1, e, roll) ELSE w1
         IN Commit(L, w2, IF e.repeat THEN "padrepeat" ELSE "padkey", "react", i, e.key)

\* The ramp and the scoring of update(dt) applied n times with dt = 0.05 s,
\* summed: tick k (k = 1..n) adds speed_(k-1) * dt to distance, speedGain * dt
\* to speed and (12 + 0.05 * speed_k) * dt to score.
Steady(r, n) ==
  LET gain == (speedGain * 5) \div 10
      before == n * r.speed + gain * ((n * (n - 1)) \div 2)
      after == n * r.speed + gain * ((n * (n + 1)) \div 2)
      distance == r.distance + 5 * before
  IN [r EXCEPT !.distance = distance, !.speed = @ + gain * n,
               !.spawnEvery = SpawnEvery(distance),
               !.score = @ + 12000 * 5 * n + 5 * 5 * after]

\* The numbers of steady ticks a collision is tried after.
CollisionTicks == {(k * MaxTicks) \div 3 : k \in 0..3}

\* A mounted Byte Runner session after n steady ticks, the player in the middle
\* lane, with one obstacle of height h in lane o level with the player (y = H - 70).
InitCollision ==
  \E n \in CollisionTicks, o \in 0..(lanes - 1), h \in {18, 35} :
    LET w == MountGame(Loaded(NoItem, NoItem, NoItem), "runner", 0)
        r == Steady([w.runner EXCEPT !.lastT = Stamp], n)
    IN Start([w EXCEPT !.runner = [r EXCEPT !.obstacles =
                <<[lane |-> o, y |-> (H - 70) * 1000, h |-> h]>>]], {"runner"})

\* One more tick is explored: none once the spawn timer has advanced.
CollisionLimits ==
  [distance |-> MaxDistance * MaxTicks, advance |-> 1, bits |-> 0, streak |-> 0,
   gaps |-> {0, 10, 30, 50, 5000}, targets |-> {0}, lanes |-> {50}, pads |-> {}, solo |-> TRUE, clock |-> FALSE,
   watch |-> {"frame"}]

NextCollision ==
  \/ RunnerFrame(CollisionLimits)
  \/ TouchClick(CollisionLimits)
  \/ PauseClick(CollisionLimits)

SpecCollision == InitCollision /\ [][NextCollision]_vars

\* loop(t) of engine e
Loop(w, e, gap, rolls) ==
  IF e = "runner" THEN RunnerLoop(w, gap, rolls)
  ELSE IF e = "clicker" THEN ClickerLoop(w, gap)
  ELSE ReactLoop(w, gap)

\* A callback of engine e fires after unmount() has cancelled it: e has been
\* mounted, is not mounted now, has no callback pending, and has not been
\* called since outside the Router's discipline.
StaleFrame(L, e) ==
  \E gap \in L.gaps :
    \E rolls \in RunnerRolls(L, runner, Step(runner.lastT, gap)) :
      /\ e \in opened /\ e \notin called /\ activeGame # e /\ Pending(World, e) = {}
      /\ e = "runner" \/ rolls = NoRolls
      /\ Within(L, e)
      /\ Commit(L, Loop(World, e, gap, rolls), "stale", e, -1, "")

\* unmount() / togglePause() / restart() called on engine e while it is not
\* mounted (never mounted, or unmounted).
LateUnmount(L, e) ==
  /\ activeGame # e
  /\ L.solo => opened \cup called \subseteq {e}
  /\ Commit(L, Unmount(World, e), "lateUnmount", e, -1, "")

LatePause(L, e) ==
  /\ activeGame # e
  /\ L.solo => opened \cup called \subseteq {e}
  /\ Commit(L, TogglePause(World, e).w, "latePause", e, -1, "")

LateRestart(L, e) ==
  /\ activeGame # e
  /\ L.solo => opened \cup called \subseteq {e}
  /\ Commit(L, Restart(World, e, 0), "lateRestart", e, -1, "")

Next ==
  \/ \E id \in Engines \cup {"other"} : CardClick(RouterLimits, id)
  \/ HomeClick(RouterLimits)
  \/ RestartClick(RouterLimits)
  \/ PauseClick(RouterLimits)
  \/ RunnerFrame(RouterLimits)
  \/ ClickerFrame(RouterLimits)
  \/ ReactFrame(RouterLimits)
  \/ KeyDown(RouterLimits)
  \/ TouchClick(RouterLimits)
  \/ GenerateClick(RouterLimits)
  \/ BuyClick(RouterLimits)
  \/ PadClick(RouterLimits)
  \/ PadKeyDown(RouterLimits)

Spec == Init /\ [][Next]_vars

NextSolo ==
  \/ \E id \in Engines : CardClick(SoloLimits, id)
  \/ HomeClick(SoloLimits)
  \/ RestartClick(SoloLimits)
  \/ PauseClick(SoloLimits)
  \/ RunnerFrame(SoloLimits)
  \/ ClickerFrame(SoloLimits)
  \/ ReactFrame(SoloLimits)
  \/ KeyDown(SoloLimits)
  \/ TouchClick(SoloLimits)
  \/ GenerateClick(SoloLimits)
  \/ BuyClick(SoloLimits)
  \/ PadClick(SoloLimits)
  \/ PadKeyDown(SoloLimits)

SpecSolo == Init /\ [][NextSolo]_vars

NextContract ==
  \/ \E id \in Engines : CardClick(ContractLimits, id)
  \/ HomeClick(ContractLimits)
  \/ RestartClick(ContractLimits)
  \/ PauseClick(ContractLimits)
  \/ RunnerFrame(ContractLimits)
  \/ ClickerFrame(ContractLimits)
  \/ ReactFrame(ContractLimits)
  \/ KeyDown(ContractLimits)
  \/ TouchClick(ContractLimits)
  \/ GenerateClick(ContractLimits)
  \/ BuyClick(ContractLimits)
  \/ PadClick(ContractLimits)
  \/ PadKeyDown(ContractLimits)
  \/ \E e \in Engines : StaleFrame(ContractLimits, e)
  \/ \E e \in Engines : LateUnmount(ContractLimits, e)
  \/ \E e \in Engines : LatePause(ContractLimits, e)
  \/ \E e \in Engines : LateRestart(ContractLimits, e)

SpecContract == Init /\ [][NextContract]_vars

\* Glitch React alone, its callbacks delivered as long as one is pending (the
\* loop requests the next one first thing, and the display keeps refreshing).
ReactLimits ==
  [distance |-> 0, advance |-> MaxTimer, bits |-> 0, streak |-> MaxStreak,
   gaps |-> {50}, targets |-> FewTargetRolls, lanes |-> {50}, pads |-> {0, 3}, solo |-> TRUE, clock |-> FALSE,
   watch |-> {}]

NextReact ==
  \/ CardClick(ReactLimits, "react")
  \/ HomeClick(ReactLimits)
  \/ RestartClick(ReactLimits)
  \/ PauseClick(ReactLimits)
  \/ ReactFrame(ReactLimits)
  \/ KeyDown(ReactLimits)
  \/ PadClick(ReactLimits)
  \/ PadKeyDown(ReactLimits)

SpecReact == Init /\ [][NextReact]_vars /\ WF_vars(ReactFrame(ReactLimits))

\* The frame clock under every gap: each game played alone, its callbacks
\* 10, 30, 50 or 5000 ms apart, with the clock's history kept.
ClockGaps == {10, 30, 50, 5000}

ClockLimits ==
  [distance |-> ClockDistance, advance |-> ClockSpan, bits |-> ClockBits, streak |-> 1,
   gaps |-> ClockGaps, targets |-> {0}, lanes |-> {50}, pads |-> {0}, solo |-> TRUE, clock |-> TRUE,
   watch |-> {"frame"}]

\* A clicker record an earlier visit left after it bought drip n times and
\* spent all its bits.
ClickerDripping(n) ==
  [bits |-> 0, total |-> 5 * (CostAt("drip", 0) + (IF n > 1 THEN CostAt("drip", 1) ELSE 0)),
   bpc |-> 1, bps |-> n, upgrades |-> [core |-> 0, drip |-> n, crit |-> 0]]

\* The page loaded with bitsPerSecond 1 or 2 in the stored record.
InitClock ==
  \E n \in {1, 2} : Start(Loaded(NoItem, JSONStringify(ClickerDripping(n)), NoItem), {})

NextClock ==
  \/ \E id \in Engines : CardClick(ClockLimits, id)
  \/ HomeClick(ClockLimits)
  \/ RestartClick(ClockLimits)
  \/ PauseClick(ClockLimits)
  \/ RunnerFrame(ClockLimits)
  \/ ClickerFrame(ClockLimits)
  \/ ReactFrame(ClockLimits)
  \/ KeyDown(ClockLimits)

SpecClock == InitClock /\ [][NextClock]_vars

\* A purchase request that reaches an upgrade's click listener whatever the
\* button shows (a click event dispatched on it).
BuyRequest(L) ==
  \E id \in UpgradeIds :
    /\ "clicker" \in host
    /\ Commit(L, ClickerBuy(World, id), "buy", "clicker", -1, id)

\* Neon Clicker's shop: clicks up to 25 bits, purchase requests at any balance.
ShopLimits ==
  [distance |-> 0, advance |-> MaxTimer, bits |-> ShopBits, streak |-> 0,
   gaps |-> {50}, targets |-> {0}, lanes |-> {50}, pads |-> {}, solo |-> TRUE, clock |-> FALSE,
   watch |-> {"buy"}]

NextShop ==
  \/ CardClick(ShopLimits, "clicker")
  \/ HomeClick(ShopLimits)
  \/ RestartClick(ShopLimits)
  \/ PauseClick(ShopLimits)
  \/ ClickerFrame(ShopLimits)
  \/ GenerateClick(ShopLimits)
  \/ BuyRequest(ShopLimits)

SpecShop == Init /\ [][NextShop]_vars

\* What localStorage can hold when the page loads: nothing, texts that are not
\* JSON, empty texts, or the records an earlier visit saved.
StoredTexts ==
  {[k \in Keys |-> NoItem], [k \in Keys |-> Garbage], [k \in Keys |-> EmptyText],
   [k \in Keys |-> IF k = KEY_RUNNER THEN JSONStringify(5)
                    ELSE IF k = KEY_CLICKER THEN JSONStringify(ClickerSaved)
                    ELSE JSONStringify(1)]}

\* The page loaded over each of them, with localStorage working or throwing.
InitStore == \E texts \in StoredTexts, broken \in BOOLEAN : Start(Load(texts, broken), {})

StoreLimits ==
  [distance |-> ClockDistance, advance |-> ContractTimer, bits |-> RouterBits, streak |-> RouterStreak,
   gaps |-> {50}, targets |-> {0}, lanes |-> {50}, pads |-> {0, 3}, solo |-> TRUE, clock |-> FALSE,
   watch |-> Handlers]

NextStore ==
  \/ \E id \in Engines : CardClick(StoreLimits, id)
  \/ HomeClick(StoreLimits)
  \/ RestartClick(StoreLimits)
  \/ PauseClick(StoreLimits)
  \/ RunnerFrame(StoreLimits)
  \/ ClickerFrame(StoreLimits)
  \/ ReactFrame(StoreLimits)
  \/ KeyDown(StoreLimits)
  \/ TouchClick(StoreLimits)
  \/ GenerateClick(StoreLimits)
  \/ BuyClick(StoreLimits)
  \/ PadClick(StoreLimits)
  \/ PadKeyDown(StoreLimits)

SpecStore == InitStore /\ [][NextStore]_vars

\* The values the store is tried with: the falsy ones (0, false, null, ""),
\* other numbers, booleans and strings (two that read like literals), the
\* empty object, a flat object and a nested one.
NestedValue ==
  Obj(<<[k |-> <<"a">>, v |-> Obj(<<[k |-> <<"b">>, v |-> Null], [k |-> <<>>, v |-> Str(<<>>)]>>)],
        [k |-> <<"n">>, v |-> Num(10)],
        [k |-> <<"o", "n">>, v |-> Bool(FALSE)]>>)

JSONValues ==
  {Num(0), Num(7), Num(120), Num(-3), Bool(FALSE), Bool(TRUE), Null,
   Str(<<>>), Str(<<"a", "b">>), Str(<<"n", "u", "l", "l">>), Str(<<"0">>),
   Obj(<<>>), Obj(<<[k |-> <<"t", "o", "t", "a", "l">>, v |-> Num(0)]>>), NestedValue}

\* The fallback the reads pass: a value no write stores.
Fallback == Str(<<"f", "a", "l", "l", "b", "a", "c", "k">>)

\* store.set(k, v)
SetValue(L, k, v) == Commit(L, StoreSetValue(World, k, v), "set", "none", v, k)

\* store.get(k, Fallback): lastEvent.arg is what it returned
GetValue(L, k) == Commit(L, World, "get", "none", StoreGet(World, k, Fallback), k)

JSONLimits ==
  [distance |-> 0, advance |-> 0, bits |-> 0, streak |-> 0,
   gaps |-> {}, targets |-> {}, lanes |-> {}, pads |-> {}, solo |-> TRUE, clock |-> FALSE,
   watch |-> {"set", "get"}]

\* The store on its own, over working storage with nothing stored.
InitJSON == Start(Loaded(NoItem, NoItem, NoItem), {})

NextJSON ==
  \/ \E k \in Keys, v \in JSONValues : SetValue(JSONLimits, k, v)
  \/ \E k \in Keys : GetValue(JSONLimits, k)

SpecJSON == InitJSON /\ [][NextJSON]_vars

\* Glitch React played up to a streak of 45: correct and wrong pad clicks,
\* ticks, pause and restart.
WindowLimits ==
  [distance |-> 0, advance |-> MaxTimer, bits |-> 0, streak |-> WindowStreak,
   gaps |-> {50}, targets |-> {0}, lanes |-> {50}, pads |-> {0, 3}, solo |-> TRUE, clock |-> FALSE,
   watch |-> {}]

NextWindow ==
  \/ CardClick(WindowLimits, "react")
  \/ RestartClick(WindowLimits)
  \/ PauseClick(WindowLimits)
  \/ ReactFrame(WindowLimits)
  \/ PadClick(WindowLimits)

SpecWindow == Init /\ [][NextWindow]_vars

\* A clicker record an earlier visit left with upgrade id at level n (the other
\* upgrades at 0) and exactly the bits of its next purchase; total has the bits
\* spent on the n levels as well.
RECURSIVE Spent(_, _)
Spent(id, n) == IF n = 0 THEN 0 ELSE Spent(id, n - 1) + CostAt(id, n - 1)

ClickerAtLevel(id, n) ==
  [bits |-> 5 * CostAt(id, n), total |-> 5 * (CostAt(id, n) + Spent(id, n)),
   bpc |-> 1 + (IF id = "core" THEN n ELSE 0), bps |-> IF id = "drip" THEN n ELSE 0,
   upgrades |-> [u \in UpgradeIds |-> IF u = id THEN n ELSE 0]]

\* The page loaded over such a record, for every upgrade and level.
InitCost ==
  \E id \in UpgradeIds, n \in 0..MaxLevel :
    Start(Loaded(NoItem, JSONStringify(ClickerAtLevel(id, n)), NoItem), {})

CostLimits ==
  [distance |-> 0, advance |-> MaxTimer, bits |-> 0, streak |-> 0,
   gaps |-> {50}, targets |-> {0}, lanes |-> {50}, pads |-> {}, solo |-> TRUE, clock |-> FALSE,
   watch |-> {"buy"}]

NextCost ==
  \/ CardClick(CostLimits, "clicker")
  \/ HomeClick(CostLimits)
  \/ PauseClick(CostLimits)
  \/ ClickerFrame(CostLimits)
  \/ BuyRequest(CostLimits)

SpecCost == InitCost /\ [][NextCost]_vars

\* Neon Clicker from its default record: clicks and passive ticks up to 60
\* bits, purchase requests at any balance, pause, restart, leaving and reopening.
BankLimits ==
  [distance |-> 0, advance |-> MaxTimer, bits |-> BankBits, streak |-> 0,
   gaps |-> {50}, targets |-> {0}, lanes |-> {50}, pads |-> {}, solo |-> TRUE, clock |-> FALSE,
   watch |-> {}]

\* The page loaded with nothing stored.
InitBank == Start(Loaded(NoItem, NoItem, NoItem), {})

NextBank ==
  \/ CardClick(BankLimits, "clicker")
  \/ HomeClick(BankLimits)
  \/ RestartClick(BankLimits)
  \/ PauseClick(BankLimits)
  \/ ClickerFrame(BankLimits)
  \/ GenerateClick(BankLimits)
  \/ BuyRequest(BankLimits)

SpecBank == InitBank /\ [][NextBank]_vars

\* Every game played alone over working storage that holds, when the page
\* loads, nothing or the records an earlier visit saved.
VisitTexts == {t \in StoredTexts : \A k \in Keys : t[k].kind \in {"null", "json"}}

InitMirror == \E texts \in VisitTexts : Start(Load(texts, FALSE), {})

MirrorLimits == [SoloLimits EXCEPT !.watch = {}]

NextMirror ==
  \/ \E id \in Engines : CardClick(MirrorLimits, id)
  \/ HomeClick(MirrorLimits)
  \/ RestartClick(MirrorLimits)
  \/ PauseClick(MirrorLimits)
  \/ RunnerFrame(MirrorLimits)
  \/ ClickerFrame(MirrorLimits)
  \/ ReactFrame(MirrorLimits)
  \/ KeyDown(MirrorLimits)
  \/ TouchClick(MirrorLimits)
  \/ GenerateClick(MirrorLimits)
  \/ BuyClick(MirrorLimits)
  \/ PadClick(MirrorLimits)
  \/ PadKeyDown(MirrorLimits)

SpecMirror == InitMirror /\ [][NextMirror]_vars

\* ================================================================ claims
\* The best a stored text holds (0 when there is none).
BestIn(store, key) == IF store[key].kind = "json" THEN store[key].val ELSE 0

\* C1: across mountGame (any id, the active one included) and backToMenu, at
\* most one engine holds a pending frame subscription or live listeners, it is
\* the active game, and when mountGame reaches the incoming mount() no engine
\* holds any (the outgoing unmount() has cancelled and detached).
C1_OneHolder ==
  /\ Cardinality(Holders(World)) <= 1
  /\ Holders(World) \subseteq {activeGame}
  /\ ~lastEvent.overlap

\* A switch from one game to another has just been handled.
C1_Witness ==
  /\ lastEvent.name = "mountGame"
  /\ Cardinality(opened) >= 2
  /\ Holders(World) = {activeGame}
  /\ \E e \in opened \ {activeGame} : World[e].raf = 0


\* C3: whenever a Byte Runner session ends, by a collision, by a reset over it
\* (Restart, or a new mount) or by unmount, the stored best afterwards is the
\* maximum of the stored best before and the floor of the session's score.
C3_BestCoversEverySession ==
  [][/\ (runner.running /\ lastEvent'.name \in {"restart", "mountGame", "backToMenu"})
          => BestIn(storage', KEY_RUNNER) = Max(BestIn(storage, KEY_RUNNER), FloorScore(runner.score))
     /\ (runner.alive /\ ~runner'.alive)
          => BestIn(storage', KEY_RUNNER) = Max(BestIn(storage, KEY_RUNNER), FloorScore(runner'.score))
    ]_vars

C6_TotalMonotone ==
  [][IF lastEvent'.name = "restart" /\ lastEvent'.eng = "clicker"
     THEN clicker'.state = ClickerDefault
     ELSE /\ clicker'.state.total >= clicker.state.total
          /\ clicker'.state.bits < clicker.state.bits =>
               /\ lastEvent'.name = "buy"
               /\ clicker'.state.total = clicker.state.total
    ]_vars

\* A purchase has lowered bits below the lifetime total.
C6_Witness ==
  /\ lastEvent.name = "buy"
  /\ clicker.state.bits < clicker.state.total
  /\ clicker.state.total >= ClickerSaved.total

\* C6 as stated: restart included, total never decreases and only a purchase
\* lowers bits.
C6_NeverDecreases ==
  [][/\ clicker'.state.total >= clicker.state.total
     /\ clicker'.state.bits < clicker.state.bits => lastEvent'.name = "buy"
    ]_vars

\* An input on Glitch React's channel i: a key press, a pad click, or Enter /
\* Space on a focused pad (held or not).
ReactInput(names, i) ==
  lastEvent'.name \in names /\ lastEvent'.eng = "react" /\ lastEvent'.arg = i

\* What a correct input leaves: streak + 1, timer 0, the new streak's window,
\* a target in 0..3, still Live.
ReactAdvanced ==
  /\ react'.streak = react.streak + 1
  /\ react'.timer = 0
  /\ react'.timeLeft = clamp(155 - 3 * react'.streak, 55, 155)
  /\ react'.targetIndex \in 0..3
  /\ react'.live

\* C8 (as the code has it): while Live and not paused, a key press that is not
\* an auto-repeat, a pad click, or Enter / Space on a focused pad, on the
\* target's channel, increments streak by 1, resets the timer, sets the window
\* of the new streak, picks a target in 0..3 and stays Live; while paused, and
\* for an auto-repeated key, the input changes nothing.
C8_CorrectInput ==
  [][/\ (react.live /\ ~react.paused
           /\ ReactInput({"keydown", "pad", "padkey", "padrepeat"}, react.targetIndex)) => ReactAdvanced
     /\ (react.live /\ ReactInput({"keyrepeat"}, react.targetIndex)) => react' = react
     /\ (react.live /\ react.paused
           /\ ReactInput({"keydown", "pad", "padkey", "padrepeat", "keyrepeat"}, react.targetIndex))
          => react' = react
    ]_vars

\* Two correct inputs in a row after start(): streak 2, still Live.
C8_Witness ==
  /\ lastEvent.name \in {"keydown", "pad", "padkey", "padrepeat"}
  /\ react.live /\ react.streak = 2 /\ react.timer = 0
  /\ react.timeLeft = 149

\* C8 as stated: whenever the session is Live.
C8_WheneverLive ==
  [][(react.live /\ ReactInput({"keydown", "pad", "padkey", "padrepeat"}, react.targetIndex))
       => ReactAdvanced]_vars

\* C9: while Live (and not paused), a key press or pad activation on a channel
\* other than the target's leaves live false, streak not incremented, and the
\* stored best at max(stored best, streak).
C9_WrongInputEnds ==
  [][\A i \in 0..3 :
       (react.live /\ ~react.paused /\ i # react.targetIndex /\ ReactInput({"keydown", "pad", "padkey"}, i))
         => /\ ~react'.live
            /\ react'.streak = react.streak
            /\ BestIn(storage', KEY_REACT) = Max(BestIn(storage, KEY_REACT), react.streak)
    ]_vars

\* What C2 and C7 call a no-op: no engine's state, no persisted record and no
\* frame subscription changes.
NoOp == UNCHANGED <<runner, clicker, react, storage, frames>>

\* C2: a frame callback that fires after unmount() has returned changes no
\* session state and no persisted record and schedules no callback.
C2_StaleFrameIsNoOp ==
  [][lastEvent'.name = "stale" => NoOp]_vars

\* C7: unmount(), togglePause() and restart() on an engine that is not mounted
\* never raise and change nothing.
C7_LateCallIsNoOp ==
  [][lastEvent'.name \in LateCalls => ~lastEvent'.raised /\ NoOp]_vars

\* C4: if, at the start of a tick that updates (running, not paused, alive),
\* an obstacle in the player's lane is level with the player (y = H - 70), the
\* session is dead after the tick, at every speed and every dt in [0, 0.05].
C4_LevelObstacleKills ==
  [][(/\ lastEvent'.name = "frame" /\ lastEvent'.eng = "runner"
      /\ runner.running /\ ~runner.paused /\ runner.alive
      /\ \E i \in 1..Len(runner.obstacles) :
           /\ runner.obstacles[i].lane = runner.playerLane
           /\ runner.obstacles[i].y = (H - 70) * 1000)
       => ~runner'.alive]_vars

\* A Live, unpaused, mounted Glitch React session.
Ticking == react.live /\ ~react.paused /\ react.root

\* C10: a Live, unpaused session that keeps receiving ticks ends by timeout
\* unless an input or restart resets its timer, it is paused or unmounted: from
\* timer 0 the elapsed time grows, and from any elapsed time the session ends;
\* the tick that ends it leaves the stored best at max(stored best, streak);
\* and no state is Live with the elapsed time at or beyond the window.
C10_Timeout ==
  /\ [](react.live => react.timer < react.timeLeft /\ react.timeLeft = Window(react.streak))
  /\ [][(react.live /\ ~react'.live /\ react'.timer >= react'.timeLeft)
          => /\ react'.timer > react.timer
             /\ react'.streak = react.streak
             /\ BestIn(storage', KEY_REACT) = Max(BestIn(storage, KEY_REACT), react.streak)
             /\ react'.best = BestIn(storage', KEY_REACT)]_vars
  /\ (Ticking /\ react.timer = 0) ~> (~Ticking \/ react.timer > 0)
  /\ (Ticking /\ react.timer > 0) ~> (~Ticking \/ react.timer = 0)

\* A session with streak 1 has timed out, and the stored best is 1.
C10_Witness ==
  /\ ~react.live /\ react.root
  /\ react.timer >= react.timeLeft
  /\ react.streak = 1
  /\ BestIn(storage, KEY_REACT) = 1

\* C11 (as the code has it): a frame callback's dt is min(0.05 s, the time since
\* the engine's previous callback), so 0.05 for a gap of 5000 ms, except that it
\* is 0 in the first callback after mount and, in Byte Runner, in the first
\* callback after a reset; it is never greater than 0.05, and it is the dt the
\* update advances by (Byte Runner's speed ramp, Neon Clicker's passive buffer,
\* Glitch React's elapsed timer).
C11_ClampedStep ==
  [][lastEvent'.name = "frame" =>
       LET e == lastEvent'.eng
           gap == lastEvent'.arg
           dt == lastEvent'.dt
           first == since[e] = "mount" \/ (e = "runner" /\ since[e] = "restart")
       IN /\ dt = IF first THEN 0 ELSE Min(5, gap \div 10)
          /\ dt <= 5
          /\ (gap = 5000 /\ ~first) => dt = 5
          /\ (e = "runner" /\ ~runner.paused /\ runner.alive) => runner'.speed = runner.speed + dt
          /\ (e = "clicker" /\ ~clicker.paused) =>
               (clicker'.tickTimer + 20 - ((clicker.tickTimer + dt) % 20)) % 20 = 0
          /\ (e = "react" /\ react.live /\ ~react.paused) => react'.timer = react.timer + dt
    ]_vars

\* A Byte Runner callback 5000 ms after the previous one has updated with dt 0.05.
C11_Witness ==
  /\ lastEvent.name = "frame" /\ lastEvent.eng = "runner"
  /\ lastEvent.arg = 5000 /\ lastEvent.dt = 5
  /\ lastEvent.log = <<"update", "draw">>

\* C11 as stated: whenever the engine has had a callback since its mount, dt is
\* min(0.05 s, the time since that callback).
C11_AlwaysClampedGap ==
  [][(lastEvent'.name = "frame" /\ since[lastEvent'.eng] # "mount")
       => lastEvent'.dt = Min(5, lastEvent'.arg \div 10)]_vars

\* C12: a frame tick of a paused engine leaves its simulation state unchanged:
\* Byte Runner's distance, speed, score, obstacles, spawn timer and alive; Neon
\* Clicker's bits, total and passive buffer (and the stored record); Glitch
\* React's elapsed timer, streak, target and live.
C12_PausedTickFreezes ==
  [][lastEvent'.name = "frame" =>
       /\ (lastEvent'.eng = "runner" /\ runner.paused) =>
            /\ runner'.distance = runner.distance /\ runner'.speed = runner.speed
            /\ runner'.score = runner.score /\ runner'.obstacles = runner.obstacles
            /\ runner'.spawnTimer = runner.spawnTimer /\ runner'.alive = runner.alive
            /\ runner'.paused
       /\ (lastEvent'.eng = "clicker" /\ clicker.paused) =>
            /\ clicker'.state = clicker.state /\ clicker'.tickTimer = clicker.tickTimer
            /\ storage' = storage /\ clicker'.paused
       /\ (lastEvent'.eng = "react" /\ react.paused) =>
            /\ react'.timer = react.timer /\ react'.streak = react.streak
            /\ react'.targetIndex = react.targetIndex /\ react'.live = react.live
            /\ react'.timeLeft = react.timeLeft /\ react'.paused
    ]_vars

\* A tick has reached a paused Byte Runner session with an obstacle on screen.
C12_Witness ==
  /\ lastEvent.name = "frame" /\ lastEvent.eng = "runner"
  /\ runner.paused /\ runner.alive
  /\ runner.obstacles # <<>> /\ runner.distance > 0

\* C13: a purchase request takes effect only if bits >= cost, the cost being
\* floor(base * growth^level) at that moment; it then takes exactly cost off
\* bits, adds 1 to the upgrade's level and applies its effect once (core:
\* bitsPerClick + 1, drip: bitsPerSecond + 1, crit: neither) with total
\* unchanged, and the record is saved; with bits < cost it changes nothing.
\* With bits = 25, buying core at level 0 leaves bits 0, level 1.
C13_Purchase ==
  [][lastEvent'.name = "buy" =>
       LET id == lastEvent'.key
           st == clicker.state
           cost == 5 * CostAt(id, st.upgrades[id])
       IN IF st.bits >= cost
          THEN /\ clicker'.state.bits = st.bits - cost
               /\ clicker'.state.total = st.total
               /\ clicker'.state.upgrades = [st.upgrades EXCEPT ![id] = @ + 1]
               /\ clicker'.state.bpc = st.bpc + (IF id = "core" THEN 1 ELSE 0)
               /\ clicker'.state.bps = st.bps + (IF id = "drip" THEN 1 ELSE 0)
               /\ storage'[KEY_CLICKER] = JSONStringify(clicker'.state)
               /\ (id = "core" /\ st.upgrades.core = 0 /\ st.bits = 5 * 25) => clicker'.state.bits = 0
          ELSE clicker' = clicker /\ storage' = storage
    ]_vars

\* After a restart and 25 bits of clicks, core was bought at level 0: bits 0.
C13_Witness ==
  /\ lastEvent.name = "buy" /\ lastEvent.key = "core"
  /\ clicker.state.bits = 0 /\ clicker.state.total = 5 * 25
  /\ clicker.state.upgrades.core = 1 /\ clicker.state.bpc = 2

C15_RestartResets ==
  [][(lastEvent'.name = "restart" /\ lastEvent'.eng = "runner") =>
       /\ runner'.speed = 1100 /\ runner'.distance = 0 /\ runner'.score = 0
       /\ runner'.obstacles = <<>> /\ runner'.spawnTimer = 0
       /\ runner'.spawnEvery = 68000000
       /\ runner'.playerLane = 1 /\ runner'.alive /\ ~runner'.paused /\ runner'.running
       /\ lastEvent'.log = <<"draw">>
       /\ storage' = storage /\ runner'.best = runner.best
       /\ frames' = frames /\ runner'.raf = runner.raf
       /\ Cardinality({f \in frames' : f.eng = "runner"}) = 1
       /\ \E f \in frames' : f.id = runner'.raf
    ]_vars

\* Restart has reset a session after a collision had stored a best of 72.
C15_Witness ==
  /\ lastEvent.name = "restart" /\ lastEvent.eng = "runner"
  /\ runner.best = 72 /\ BestIn(storage, KEY_RUNNER) = 72
  /\ runner.alive /\ runner.score = 0 /\ runner.obstacles = <<>>

\* The lane shift a handled event asks for: LEFT / RIGHT, or a lane key that is
\* not an auto-repeat (0 for any other event).
LaneShift(ev) ==
  IF ev.name = "touch" THEN ev.arg
  ELSE IF ev.name = "keydown" /\ ev.eng = "runner"
       THEN IF ev.key = "ArrowLeft" THEN -1 ELSE IF ev.key = "D" THEN 1 ELSE 0
       ELSE 0

\* A handled event that calls reset(): Restart, Enter, or a mount.
Resets(ev) ==
  \/ ev.name \in {"restart", "mountGame"}
  \/ ev.name = "keydown" /\ ev.key = "Enter"

\* C16: once Byte Runner is dead, nothing but a reset (Restart, Enter, a new
\* mount) changes alive, playerLane, score, distance, speed or the obstacles:
\* no frame tick, no lane shift, no other input; and while alive a lane shift of
\* -1 / +1 moves playerLane by that much, clamped to [0, 2].
C16_DeadIsTerminal ==
  [][/\ (~runner.alive /\ ~Resets(lastEvent')) =>
          /\ ~runner'.alive /\ runner'.playerLane = runner.playerLane
          /\ runner'.score = runner.score /\ runner'.distance = runner.distance
          /\ runner'.speed = runner.speed /\ runner'.obstacles = runner.obstacles
     /\ (runner.alive /\ LaneShift(lastEvent') # 0) =>
          runner'.playerLane = clamp(runner.playerLane + LaneShift(lastEvent'), 0, 2)
     /\ runner'.playerLane \in 0..2
    ]_vars

\* LEFT or RIGHT has been pressed on a dead session: the player is still in
\* the lane of the collision.
C16_Witness ==
  /\ lastEvent.name = "touch"
  /\ ~runner.alive /\ runner.running /\ runner.playerLane = 1
  /\ runner.obstacles # <<>>

\* store.get has nothing to read for key: the access throws, the key is
\* missing, or the stored text cannot be parsed (the empty text included).
Unreadable(key) == fault \/ storage[key].kind \in {"null", "garbage", "empty"}

\* C17: store.get returns exactly the fallback when the key is missing, when
\* the stored text cannot be parsed and when the access throws; store.set
\* changes nothing when the write throws; neither raises, so no handler raises;
\* and an engine created over a missing or unparseable record, or with storage
\* throwing, starts from its defaults (best 0; bits 0, total 0, bitsPerClick 1,
\* bitsPerSecond 0, levels 0).
C17_StoreNeverFaults ==
  /\ [](\A k \in Keys : Unreadable(k) => StoreGet(World, k, -1) = -1)
  /\ [](~lastEvent.raised)
  /\ []((opened = {} /\ lastEvent = Quiet) =>
          /\ Unreadable(KEY_RUNNER) => runner.best = 0
          /\ Unreadable(KEY_CLICKER) => clicker.state = ClickerDefault
          /\ Unreadable(KEY_REACT) => react.best = 0)
  /\ [][fault => storage' = storage]_vars

\* With storage throwing over saved records, Neon Clicker started from its
\* defaults and a click was handled: 1 bit, the stored record as it was.
C17_Witness ==
  /\ fault /\ storage[KEY_CLICKER] = JSONStringify(ClickerSaved)
  /\ lastEvent.name = "click" /\ ~lastEvent.raised
  /\ clicker.state.total = 5 /\ clicker.state.bpc = 1

\* C18: with working storage, store.get(k, fallback) after store.set(k, v)
\* returns a value equal to v, member by member, and not the fallback, for
\* every v tried (0, false, null, "" and nested objects included), whatever
\* was set under the other keys meanwhile; and get on a key never set returns
\* the fallback.
C18_RoundTrip ==
  /\ lastEvent.name = "set" =>
       /\ StoreGet(World, lastEvent.key, Fallback) = lastEvent.arg
       /\ StoreGet(World, lastEvent.key, Fallback) # Fallback
  /\ \A k \in Keys :
       IF storage[k] = NoItem THEN StoreGet(World, k, Fallback) = Fallback
       ELSE \E v \in JSONValues : storage[k] = JSONText(v) /\ StoreGet(World, k, Fallback) = v
  /\ lastEvent.name = "get" => lastEvent.arg = StoreGet(World, lastEvent.key, Fallback)

\* 0 has been set and reads back as 0, with null and the nested object under
\* the other keys.
C18_Witness ==
  /\ lastEvent.name = "set" /\ lastEvent.key = KEY_RUNNER /\ lastEvent.arg = Num(0)
  /\ storage[KEY_RUNNER].chars = <<"0">>
  /\ StoreGet(World, KEY_RUNNER, Fallback) = Num(0)
  /\ StoreGet(World, KEY_CLICKER, Fallback) = NestedValue
  /\ StoreGet(World, KEY_REACT, Fallback) = Null

\* C19: the response window of a Live session is clamp(1.55 - 0.03 * streak,
\* 0.55, 1.55) for its streak: between 0.55 and 1.55, exactly 0.55 from streak
\* 40 on, and no longer than the window of any smaller streak.
C19_Window ==
  react.live =>
    /\ react.timeLeft = clamp(155 - 3 * react.streak, 55, 155)
    /\ react.timeLeft >= 55 /\ react.timeLeft <= 155
    /\ react.streak >= 40 => react.timeLeft = 55
    /\ \A s \in 0..react.streak : Window(s) >= react.timeLeft
    /\ \A s \in 0..react.streak : s > 0 => Window(s) <= Window(s - 1)

\* A Live session at streak 40, its window 0.55 s.
C19_Witness ==
  /\ react.live /\ react.streak = 40 /\ react.timeLeft = 55 /\ react.timer = 0

\* Levels at which base * num^n and den^n are within the model's integers.
ExactLevels == 0..4

\* C20: the cost at level n is floor(base * growth^n): it is what a purchase
\* at level n takes off bits, it is the c with c <= base * growth^n < c + 1, it
\* does not decrease with the level for core, drip and crit, and for core it is
\* 25 at level 0, 30 at level 1 and 67 at level 5.
C20_Cost ==
  /\ [](\A id \in UpgradeIds, n \in ExactLevels :
          LET u == upgradeDefs[id] c == CostAt(id, n) IN
          /\ c * Pow(u.den, n) <= u.base * Pow(u.num, n)
          /\ u.base * Pow(u.num, n) < (c + 1) * Pow(u.den, n))
  /\ [](\A id \in UpgradeIds, n \in 0..MaxLevel : CostAt(id, n) <= CostAt(id, n + 1))
  /\ [](CostAt("core", 0) = 25 /\ CostAt("core", 1) = 30 /\ CostAt("core", 5) = 67)
  /\ [][(lastEvent'.name = "buy" /\ clicker'.state # clicker.state) =>
          LET id == lastEvent'.key IN
          /\ clicker.state.bits - clicker'.state.bits = 5 * CostAt(id, clicker.state.upgrades[id])
          /\ calcCost(clicker'.state, id) >= calcCost(clicker.state, id)
        ]_vars

\* Core has been bought at level 5 with exactly 67 bits.
C20_Witness ==
  /\ lastEvent.name = "buy" /\ lastEvent.key = "core"
  /\ clicker.state.upgrades.core = 6 /\ clicker.state.bits = 0
  /\ clicker.state.total = 5 * (25 + 30 + 37 + 45 + 55 + 67)

\* C21: in every state Neon Clicker reaches from its default record through
\* clicks, passive ticks, purchases, togglePause, restart and unmount / mount,
\* 0 <= bits <= total, bitsPerClick = 1 + level[core] and bitsPerSecond =
\* level[drip].
C21_Balance ==
  LET st == clicker.state IN
  /\ 0 <= st.bits /\ st.bits <= st.total
  /\ st.bpc = 1 + st.upgrades.core
  /\ st.bps = st.upgrades.drip

\* Core and drip have both been bought, passive income has left a fraction of
\* a bit, and the bits spent keep bits below total.
C21_Witness ==
  /\ clicker.state.upgrades.core >= 1 /\ clicker.state.upgrades.drip >= 1
  /\ clicker.state.bits % 5 # 0
  /\ 0 < clicker.state.bits /\ clicker.state.bits < clicker.state.total

\* C22: in Glitch React, whenever the session is not Live, best >= streak: no
\* streak that was reached is held or displayed above the recorded best, under
\* any sequence of start, inputs, ticks, togglePause, restart, unmount and mount.
C22_BestCoversStreak == ~react.live => react.best >= react.streak

\* The value an engine keeps in memory for its key, and the default it starts
\* from when the key holds nothing.
InMemory(key) ==
  IF key = KEY_RUNNER THEN runner.best
  ELSE IF key = KEY_CLICKER THEN clicker.state
  ELSE react.best

DefaultOf(key) == IF key = KEY_CLICKER THEN ClickerDefault ELSE 0

\* C23: with working storage, after every completed handler or frame tick the
\* value persisted under each engine's key equals the engine's in-memory value
\* (Byte Runner's best, Glitch React's best, the whole Neon Clicker record); a
\* key not yet written corresponds to the in-memory defaults.
C23_StoreMirrorsMemory ==
  ~fault =>
    \A k \in Keys :
      IF storage[k].kind = "null" THEN InMemory(k) = DefaultOf(k)
      ELSE storage[k].kind = "json" /\ storage[k].val = InMemory(k)

\* A collision has raised Byte Runner's best over the 5 an earlier visit
\* stored, and the stored text holds the new best.
C23_Witness ==
  /\ ~fault /\ ~runner.alive
  /\ runner.best > 5
  /\ storage[KEY_RUNNER] = JSONStringify(runner.best)
  /\ storage[KEY_REACT] = JSONStringify(1)

\* C24: whenever a game is active, the shared pause control shows pressed /
\* "Resume" exactly when the active engine's paused flag is set, after any
\* sequence of mountGame, pause-button clicks, restart-button clicks and
\* in-game key input (Space and Enter in Byte Runner).
C24_PauseControlShowsPaused ==
  activeGame # "none" => btnPause.pressed = World[activeGame].paused

====
